---- MODULE Spec2Model ----
(***************************************************************************)
(* Model of ingestion/client/python/streaming_shot_detection.py:           *)
(* the chunk producer stream(), and streaming_annotate(), which feeds the   *)
(* lazy request generator to a bidirectional streaming call and prints the  *)
(* shot annotations of every response.                                      *)
(*                                                                          *)
(* Three activities share the state: the main thread (streaming_annotate), *)
(* the transport's outbound half, which pulls the request generator, and    *)
(* the remote service, which delivers responses, closes or fails.           *)
(* A file is a sequence of blocks; one block stands for 1 MiB.              *)
(***************************************************************************)
EXTENDS Integers, Sequences, FiniteSets, TLC

VARIABLES
    pc,          \* position of the main thread in streaming_annotate
    client,      \* TRUE once the service client has been constructed
    readable,    \* input: can stream_file be opened
    file,        \* input: the content of stream_file
    chunk_size,  \* the chunk_size argument of stream()
    fstate,      \* video_file: "unopened", "open" or "closed"
    pos,         \* the cursor of video_file
    gen,         \* the generator stream(): "none", "created", "running", "exhausted", "raised"
    chunks,      \* the chunks stream() has yielded, in yield order
    calls,       \* number of streaming_annotate_video calls submitted
    outbound,    \* the request messages handed to the streaming call, in order
    tstate,      \* outbound half of the call: "idle", "active", "halfclosed", "stopped"
    rstate,      \* remote side: "idle", "open", "closed", "TransportFailure", "DeadlineExceeded"
    delivered,   \* every response the remote side has delivered, in order
    inbound,     \* delivered responses not yet taken by the response loop
    handled,     \* the responses the loop body has been entered with, in order
    cur,         \* the response the loop body is working on
    idx,         \* index of the next shot annotation of cur
    stdout,      \* the lines printed so far
    error        \* the error that ended the run, or "none"

vars == <<pc, client, readable, file, chunk_size, fstate, pos, gen, chunks, calls,
          outbound, tstate, rstate, delivered, inbound, handled, cur, idx, stdout, error>>

---------------------------------------------------------------------------
(* Bounds *)

MaxFileLen == 12      \* longest ramp file, in blocks
MaxBinLen == 3        \* longest file over the two-byte alphabet
MaxChunk == 5         \* largest chunk size the producer is run with on its own
MaxResponses == 2     \* responses the remote side delivers in one session
MaxShots == 2         \* shot annotations in one response

(* chunk_size = 5 * 1024 * 1024, in 1 MiB blocks *)
ChunkSize == 5

NanosPerSecond == 1000000000

---------------------------------------------------------------------------
(* Helpers *)

Min(a, b) == IF a <= b THEN a ELSE b

RECURSIVE Concat(_)
Concat(ss) == IF ss = <<>> THEN <<>> ELSE Head(ss) \o Concat(Tail(ss))

CeilDiv(n, c) == (n + c - 1) \div c

Ramp(n) == [i \in 1..n |-> i]

Files == {Ramp(n) : n \in 0..MaxFileLen}
             \cup UNION {[1..n -> {0, 1}] : n \in 0..MaxBinLen}

Offset(s, n) == [seconds |-> s, nanos |-> n]

(* the k-th shot of the video (k = 0, 1, ...): consecutive spans, as the service
   reports them; the offsets stay below 2 s so that they fit TLC's integers *)
ShotAt(k) ==
    [start_time_offset |-> Offset((k * 170837000) \div 1000000000, (k * 170837000) % 1000000000),
     end_time_offset |-> Offset((k * 170837000 + 137470000) \div 1000000000,
                                (k * 170837000 + 137470000) % 1000000000)]

(* a response carrying the n shots that follow the first k *)
ResponseOf(k, n) == [i \in 1..n |-> ShotAt(k + i - 1)]

---------------------------------------------------------------------------
(* a read that returns nothing when fewer than n blocks are left *)
Read_DropShortTail(f, p, n) == IF p + n <= Len(f) THEN SubSeq(f, p + 1, p + n) ELSE <<>>

(* a read that returns one block more than asked for *)
Read_OneMore(f, p, n) == SubSeq(f, p + 1, Min(p + n + 1, Len(f)))

(* file_object.read(n): up to n blocks from the cursor, empty at end of file *)
Read(f, p, n) == SubSeq(f, p + 1, Min(p + n, Len(f)))

(* types.StreamingAnnotateVideoRequest(input_content=chunk) *)
ChunkRequest(chunk) == [video_config |-> "NONE", input_content |-> chunk]

(* types.StreamingAnnotateVideoRequest(video_config=config) *)
ConfigRequest == [video_config |-> "STREAMING_SHOT_CHANGE_DETECTION", input_content |-> <<>>]

(* offset.seconds + offset.nanos / 1e9, kept in nanoseconds *)
Seconds(offset) == offset.seconds * NanosPerSecond + offset.nanos

(* 'Shot: {}s to {}s'.format(start, end) *)
ShotLine(annotation) ==
    <<"Shot", Seconds(annotation.start_time_offset), Seconds(annotation.end_time_offset)>>

(* print('\nReading response.') writes an empty line and the header line *)
HeaderLines == << <<"">>, <<"Reading response.">> >>

(* a block exit that leaves video_file as it is *)
ExitWith_Leak(fs) == fs

(* leaving the with block closes video_file *)
ExitWith(fs) == "closed"

---------------------------------------------------------------------------
(* stream(file_object, chunk_size): one resumption of the generator *)

StreamYield ==
    /\ gen \in {"created", "running"}
    /\ fstate = "open"
    /\ Read(file, pos, chunk_size) # <<>>
    /\ pos' = pos + Len(Read(file, pos, chunk_size))
    /\ chunks' = Append(chunks, Read(file, pos, chunk_size))
    /\ gen' = "running"

StreamBreak ==
    /\ gen \in {"created", "running"}
    /\ fstate = "open"
    /\ Read(file, pos, chunk_size) = <<>>
    /\ gen' = "exhausted"
    /\ UNCHANGED <<pos, chunks>>

(* read() on a closed file raises ValueError inside the generator *)
StreamRaise ==
    /\ gen \in {"created", "running"}
    /\ fstate = "closed"
    /\ gen' = "raised"
    /\ UNCHANGED <<pos, chunks>>

---------------------------------------------------------------------------
(* The producer driven on its own to exhaustion *)

InitStream ==
    /\ pc = "producer"
    /\ client = FALSE
    /\ readable = TRUE
    /\ file \in Files
    /\ chunk_size \in 1..MaxChunk
    /\ fstate = "open"
    /\ pos = 0
    /\ gen = "created"
    /\ chunks = <<>>
    /\ calls = 0
    /\ outbound = <<>>
    /\ tstate = "idle"
    /\ rstate = "idle"
    /\ delivered = <<>>
    /\ inbound = <<>>
    /\ handled = <<>>
    /\ cur = <<>>
    /\ idx = 1
    /\ stdout = <<>>
    /\ error = "none"

NextChunk ==
    /\ pc = "producer"
    /\ StreamYield
    /\ UNCHANGED <<pc, client, readable, file, chunk_size, fstate, calls, outbound, tstate,
                   rstate, delivered, inbound, handled, cur, idx, stdout, error>>

EndOfFile ==
    /\ pc = "producer"
    /\ StreamBreak
    /\ UNCHANGED <<pc, client, readable, file, chunk_size, fstate, calls, outbound, tstate,
                   rstate, delivered, inbound, handled, cur, idx, stdout, error>>

NextStream == NextChunk \/ EndOfFile

SpecStream == InitStream /\ [][NextStream]_vars

---------------------------------------------------------------------------
(* streaming_annotate(stream_file): the main thread *)

Init ==
    /\ pc = "client"
    /\ client = FALSE
    /\ readable \in BOOLEAN
    /\ file \in Files
    /\ chunk_size = 0
    /\ fstate = "unopened"
    /\ pos = 0
    /\ gen = "none"
    /\ chunks = <<>>
    /\ calls = 0
    /\ outbound = <<>>
    /\ tstate = "idle"
    /\ rstate = "idle"
    /\ delivered = <<>>
    /\ inbound = <<>>
    /\ handled = <<>>
    /\ cur = <<>>
    /\ idx = 1
    /\ stdout = <<>>
    /\ error = "none"

Failures == {"TransportFailure", "DeadlineExceeded"}

(* client = ...StreamingVideoIntelligenceServiceClient(); chunk_size = 5 MiB *)
ConstructClient ==
    /\ pc = "client"
    /\ client' = TRUE
    /\ chunk_size' = ChunkSize
    /\ pc' = "open"
    /\ UNCHANGED <<readable, file, fstate, pos, gen, chunks, calls, outbound, tstate,
                   rstate, delivered, inbound, handled, cur, idx, stdout, error>>

(* an open that goes on although the path cannot be opened *)
OpenFile_Unchecked ==
    /\ pc = "open"
    /\ fstate' = "open"
    /\ gen' = "created"
    /\ pc' = "call"
    /\ UNCHANGED <<client, readable, file, chunk_size, pos, chunks, calls, outbound,
                   tstate, rstate, delivered, inbound, handled, cur, idx, stdout, error>>

(* with open(stream_file) as video_file; the request generator and the
   config request are built, nothing is read yet *)
OpenFile ==
    /\ pc = "open"
    /\ readable
    /\ fstate' = "open"
    /\ gen' = "created"
    /\ pc' = "call"
    /\ UNCHANGED <<client, readable, file, chunk_size, pos, chunks, calls, outbound,
                   tstate, rstate, delivered, inbound, handled, cur, idx, stdout, error>>

(* open(stream_file) raises *)
OpenFail ==
    /\ pc = "open"
    /\ ~readable
    /\ error' = "FileNotReadable"
    /\ pc' = "failed"
    /\ UNCHANGED <<client, readable, file, chunk_size, fstate, pos, gen, chunks, calls,
                   outbound, tstate, rstate, delivered, inbound, handled, cur, idx, stdout>>

(* a call that is handed the chunk requests only *)
Call_ConfigOmitted ==
    /\ pc = "call"
    /\ calls' = calls + 1
    /\ tstate' = "active"
    /\ rstate' = "open"
    /\ pc' = "header"
    /\ UNCHANGED <<client, readable, file, chunk_size, fstate, pos, gen, chunks, outbound,
                   delivered, inbound, handled, cur, idx, stdout, error>>

(* responses = client.streaming_annotate_video(config_request, requests, timeout):
   the call starts with config_request; requests is pulled by the transport *)
Call ==
    /\ pc = "call"
    /\ calls' = calls + 1
    /\ outbound' = Append(outbound, ConfigRequest)
    /\ tstate' = "active"
    /\ rstate' = "open"
    /\ pc' = "header"
    /\ UNCHANGED <<client, readable, file, chunk_size, fstate, pos, gen, chunks,
                   delivered, inbound, handled, cur, idx, stdout, error>>

(* the call is handed config_request and requests and raises at once; the
   exception leaves the with block *)
CallFail ==
    /\ pc = "call"
    /\ calls' = calls + 1
    /\ outbound' = Append(outbound, ConfigRequest)
    /\ error' = "TransportFailure"
    /\ fstate' = ExitWith(fstate)
    /\ pc' = "failed"
    /\ UNCHANGED <<client, readable, file, chunk_size, pos, gen, chunks, tstate,
                   rstate, delivered, inbound, handled, cur, idx, stdout>>

(* the header print left out *)
PrintHeader_Skipped ==
    /\ pc = "header"
    /\ pc' = "loop"
    /\ UNCHANGED <<client, readable, file, chunk_size, fstate, pos, gen, chunks, calls, outbound,
                   tstate, rstate, delivered, inbound, handled, cur, idx, stdout, error>>

(* print('\nReading response.') *)
PrintHeader ==
    /\ pc = "header"
    /\ stdout' = stdout \o HeaderLines
    /\ pc' = "loop"
    /\ UNCHANGED <<client, readable, file, chunk_size, fstate, pos, gen, chunks, calls,
                   outbound, tstate, rstate, delivered, inbound, handled, cur, idx, error>>

(* for response in responses: the next response is there *)
LoopNext ==
    /\ pc = "loop"
    /\ inbound # <<>>
    /\ cur' = Head(inbound)
    /\ inbound' = Tail(inbound)
    /\ handled' = Append(handled, Head(inbound))
    /\ idx' = 1
    /\ pc' = IF Head(inbound) = <<>> THEN "loop" ELSE "inner"
    /\ UNCHANGED <<client, readable, file, chunk_size, fstate, pos, gen, chunks, calls,
                   outbound, tstate, rstate, delivered, stdout, error>>

(* for response in responses: the response sequence ends; the with block is left *)
LoopEnd ==
    /\ pc = "loop"
    /\ inbound = <<>>
    /\ rstate = "closed"
    /\ fstate' = ExitWith(fstate)
    /\ pc' = "done"
    /\ UNCHANGED <<client, readable, file, chunk_size, pos, gen, chunks, calls, outbound,
                   tstate, rstate, delivered, inbound, handled, cur, idx, stdout, error>>

(* a failure that is recorded and swallowed: the loop goes on *)
LoopFail_Swallowed ==
    /\ pc = "loop"
    /\ rstate \in Failures
    /\ error = "none"
    /\ error' = rstate
    /\ UNCHANGED <<pc, client, readable, file, chunk_size, fstate, pos, gen, chunks, calls,
                   outbound, tstate, rstate, delivered, inbound, handled, cur, idx, stdout>>

(* for response in responses: the iteration raises; responses still buffered
   are dropped, the exception leaves the with block *)
LoopFail ==
    /\ pc = "loop"
    /\ rstate \in Failures
    /\ error' = rstate
    /\ fstate' = ExitWith(fstate)
    /\ pc' = "failed"
    /\ UNCHANGED <<client, readable, file, chunk_size, pos, gen, chunks, calls, outbound,
                   tstate, rstate, delivered, inbound, handled, cur, idx, stdout>>

(* an inner loop that walks the annotations backwards *)
PrintShot_Reversed ==
    /\ pc = "inner"
    /\ idx <= Len(cur)
    /\ stdout' = Append(stdout, ShotLine(cur[Len(cur) + 1 - idx]))
    /\ idx' = idx + 1
    /\ pc' = IF idx = Len(cur) THEN "loop" ELSE "inner"
    /\ UNCHANGED <<client, readable, file, chunk_size, fstate, pos, gen, chunks, calls,
                   outbound, tstate, rstate, delivered, inbound, handled, cur, error>>

(* for annotation in response...shot_annotations: print('Shot: {}s to {}s') *)
PrintShot ==
    /\ pc = "inner"
    /\ idx <= Len(cur)
    /\ stdout' = Append(stdout, ShotLine(cur[idx]))
    /\ idx' = idx + 1
    /\ pc' = IF idx = Len(cur) THEN "loop" ELSE "inner"
    /\ UNCHANGED <<client, readable, file, chunk_size, fstate, pos, gen, chunks, calls,
                   outbound, tstate, rstate, delivered, inbound, handled, cur, error>>

---------------------------------------------------------------------------
(* The outbound half of the call: it pulls the generator
   (StreamingAnnotateVideoRequest(input_content=chunk) for chunk in stream(...)) *)

(* a transport that sends the newest chunk ahead of the chunks sent before *)
TransportPull_Reordered ==
    /\ tstate = "active"
    /\ StreamYield
    /\ outbound' = <<Head(outbound), ChunkRequest(Read(file, pos, chunk_size))>> \o Tail(outbound)
    /\ UNCHANGED <<pc, client, readable, file, chunk_size, fstate, calls, tstate, rstate,
                   delivered, inbound, handled, cur, idx, stdout, error>>

TransportPull ==
    /\ tstate = "active"
    /\ StreamYield
    /\ outbound' = Append(outbound, ChunkRequest(Read(file, pos, chunk_size)))
    /\ UNCHANGED <<pc, client, readable, file, chunk_size, fstate, calls, tstate, rstate,
                   delivered, inbound, handled, cur, idx, stdout, error>>

(* the generator is exhausted: end of the outbound stream *)
TransportHalfClose ==
    /\ tstate = "active"
    /\ StreamBreak
    /\ tstate' = "halfclosed"
    /\ UNCHANGED <<pc, client, readable, file, chunk_size, fstate, calls, outbound, rstate,
                   delivered, inbound, handled, cur, idx, stdout, error>>

(* the generator is pulled after the main thread has left the with block *)
TransportRaise ==
    /\ tstate = "active"
    /\ StreamRaise
    /\ tstate' = "stopped"
    /\ UNCHANGED <<pc, client, readable, file, chunk_size, fstate, calls, outbound, rstate,
                   delivered, inbound, handled, cur, idx, stdout, error>>

(* the transport sees that the call is over and pulls no more *)
TransportStop ==
    /\ tstate = "active"
    /\ pc \in {"done", "failed"}
    /\ tstate' = "stopped"
    /\ UNCHANGED <<pc, client, readable, file, chunk_size, fstate, pos, gen, chunks, calls,
                   outbound, rstate, delivered, inbound, handled, cur, idx, stdout, error>>

---------------------------------------------------------------------------
(* The remote side of the call, as seen through the responses iterator *)

RemoteSend ==
    /\ rstate = "open"
    /\ pc \in {"header", "loop", "inner"}
    /\ Len(delivered) < MaxResponses
    /\ \E n \in 0..MaxShots :
          /\ delivered' = Append(delivered, ResponseOf(Len(Concat(delivered)), n))
          /\ inbound' = Append(inbound, ResponseOf(Len(Concat(delivered)), n))
    /\ UNCHANGED <<pc, client, readable, file, chunk_size, fstate, pos, gen, chunks, calls,
                   outbound, tstate, rstate, handled, cur, idx, stdout, error>>

RemoteClose ==
    /\ rstate = "open"
    /\ pc \in {"header", "loop", "inner"}
    /\ rstate' = "closed"
    /\ UNCHANGED <<pc, client, readable, file, chunk_size, fstate, pos, gen, chunks, calls,
                   outbound, tstate, delivered, inbound, handled, cur, idx, stdout, error>>

RemoteFail ==
    /\ rstate = "open"
    /\ pc \in {"header", "loop", "inner"}
    /\ rstate' \in Failures
    /\ UNCHANGED <<pc, client, readable, file, chunk_size, fstate, pos, gen, chunks, calls,
                   outbound, tstate, delivered, inbound, handled, cur, idx, stdout, error>>

Next ==
    \/ ConstructClient
    \/ OpenFile
    \/ OpenFail
    \/ Call
    \/ CallFail
    \/ PrintHeader
    \/ LoopNext
    \/ LoopEnd
    \/ LoopFail
    \/ PrintShot
    \/ TransportPull
    \/ TransportHalfClose
    \/ TransportRaise
    \/ TransportStop
    \/ RemoteSend
    \/ RemoteClose
    \/ RemoteFail

Spec == Init /\ [][Next]_vars

---------------------------------------------------------------------------
(* Properties *)

IsPrefix(a, b) == Len(a) <= Len(b) /\ SubSeq(b, 1, Len(a)) = a

Terminated == pc \in {"done", "failed"}

IsShotLine(line) == line[1] = "Shot"

IsHeaderLine(line) == line = <<"Reading response.">>

(* the Shot lines printed so far, in print order *)
Printed == SelectSeq(stdout, IsShotLine)

HeaderCount == Cardinality({i \in DOMAIN stdout : IsHeaderLine(stdout[i])})

(* the Shot lines of a sequence of responses: one per annotation, in order *)
LinesOf(rs) == [i \in 1..Len(Concat(rs)) |-> ShotLine(Concat(rs)[i])]

(* the session was set up: streaming_annotate_video returned the response iterator *)
CallReturned == tstate # "idle"

---------------------------------------------------------------------------
(* C1: when stream(file, C) has run to exhaustion it has yielded ceil(N/C)
   chunks for a file of N > 0 blocks and no chunk for an empty file, and the
   chunks concatenated in yield order are the file. *)
C1_ChunkCountAndContent ==
    gen = "exhausted" =>
        /\ Len(chunks) = IF Len(file) = 0 THEN 0 ELSE CeilDiv(Len(file), chunk_size)
        /\ Concat(chunks) = file

(* a 12-block file read in chunks of 5 has given 5, 5 and 2 blocks *)
C1_Witness ==
    /\ gen = "exhausted"
    /\ Len(file) = 12
    /\ chunk_size = 5
    /\ [i \in DOMAIN chunks |-> Len(chunks[i])] = <<5, 5, 2>>

(* C2: at every moment every chunk yielded so far is non-empty and at most C
   long; once the sequence is complete every chunk but the last is exactly C
   long, the last is N mod C long, or C long when C divides N, in which case
   there are exactly N/C chunks and no trailing empty one. *)
C2_ChunkLengths ==
    /\ \A i \in DOMAIN chunks : Len(chunks[i]) >= 1 /\ Len(chunks[i]) <= chunk_size
    /\ gen = "exhausted" =>
          /\ \A i \in 1..(Len(chunks) - 1) : Len(chunks[i]) = chunk_size
          /\ Len(file) % chunk_size # 0 =>
                Len(chunks[Len(chunks)]) = Len(file) % chunk_size
          /\ Len(file) % chunk_size = 0 =>
                /\ Len(chunks) = Len(file) \div chunk_size
                /\ chunks # <<>> => Len(chunks[Len(chunks)]) = chunk_size

(* a file of exactly two full chunks has been read to the end *)
C2_Witness ==
    /\ gen = "exhausted"
    /\ chunk_size > 1
    /\ Len(file) = 2 * chunk_size
    /\ Len(chunks) = 2

(* C3: once the streaming call has been made, the outbound sequence starts
   with the config message and holds no other config message; before the
   call nothing is outbound. This includes the empty file. *)
C3_ConfigFirstOnce ==
    /\ calls = 0 => outbound = <<>>
    /\ calls > 0 =>
          /\ outbound # <<>>
          /\ outbound[1] = ConfigRequest
          /\ \A i \in 2..Len(outbound) : outbound[i].video_config = "NONE"

(* the session of an empty file has ended its outbound stream: config only *)
C3_Witness ==
    /\ file = <<>>
    /\ tstate = "halfclosed"
    /\ outbound = <<ConfigRequest>>

(* C4: after the config message the i-th outbound message carries the i-th
   chunk the producer read, one chunk per message, so that the chunk
   messages together are the part of the file read so far; the outbound
   stream is ended only when the producer is exhausted, the whole file sent. *)
C4_ChunksInReadOrder ==
    CallReturned =>
        /\ Len(outbound) = Len(chunks) + 1
        /\ \A i \in DOMAIN chunks : outbound[i + 1] = ChunkRequest(chunks[i])
        /\ Concat([i \in 1..(Len(outbound) - 1) |-> outbound[i + 1].input_content])
              = SubSeq(file, 1, pos)
        /\ tstate = "halfclosed" => gen = "exhausted" /\ pos = Len(file)

(* a 12-block file went out as config plus three chunk messages *)
C4_Witness ==
    /\ tstate = "halfclosed"
    /\ Len(file) = 12
    /\ Len(outbound) = 4

(* C5: the loop body is entered with the delivered responses in delivery
   order, each at most once, and the Shot lines printed are those of the
   handled responses' annotations in embedded order; when the session ends
   without failure every delivered response has been handled and the Shot
   lines are exactly those of all delivered annotations. *)
C5_ResponsesInOrder ==
    /\ IsPrefix(handled, delivered)
    /\ IsPrefix(Printed, LinesOf(handled))
    /\ pc = "loop" => Printed = LinesOf(handled)
    /\ pc = "done" => handled = delivered /\ Printed = LinesOf(delivered)

(* a clean session of two responses, the first with two annotations *)
C5_Witness ==
    /\ pc = "done"
    /\ Len(delivered) = 2
    /\ Len(delivered[1]) = 2
    /\ Len(delivered[2]) >= 1
    /\ Len(Printed) >= 3

(* C6: no terminated run leaves video_file open: it is closed after the
   responses are consumed and after a failing call or iteration, however
   much of the file was read; it was never opened only if open() failed. *)
C6_FileClosedOnExit ==
    Terminated =>
        \/ fstate = "closed"
        \/ fstate = "unopened" /\ error = "FileNotReadable"

(* a deadline failure with the file partly read *)
C6_Witness ==
    /\ pc = "failed"
    /\ error = "DeadlineExceeded"
    /\ fstate = "closed"
    /\ pos > 0
    /\ pos < Len(file)

(* C7 as stated: a run that ends with FileNotReadable has constructed no
   client handle, submitted no call, sent no message and printed nothing. *)
C7_NothingBeforeOpen ==
    error = "FileNotReadable" =>
        /\ ~client
        /\ calls = 0
        /\ outbound = <<>>
        /\ stdout = <<>>

(* C7 amended: a run on an unreadable path never gets past open(); it ends
   with FileNotReadable with no call submitted, no message sent and nothing
   printed, the client handle having been constructed before. *)
C7_NoCallBeforeOpen ==
    /\ ~readable => pc \in {"client", "open", "failed"}
    /\ (~readable /\ Terminated) => error = "FileNotReadable"
    /\ error = "FileNotReadable" =>
          /\ ~readable
          /\ client
          /\ calls = 0
          /\ outbound = <<>>
          /\ tstate = "idle"
          /\ rstate = "idle"
          /\ stdout = <<>>

(* open() has failed *)
C7_Witness ==
    /\ pc = "failed"
    /\ error = "FileNotReadable"
    /\ fstate = "unopened"

(* a step taken after TransportFailure or DeadlineExceeded ended the session *)
FrozenAfterFailure ==
    error \in Failures =>
        (/\ error' = error
         /\ pc' = pc
         /\ handled' = handled
         /\ stdout' = stdout
         /\ calls' = calls
         /\ outbound' = outbound)

(* C8: at most one streaming call is ever submitted, output is only ever
   appended to, and once TransportFailure or DeadlineExceeded has ended the
   session nothing is handled, printed, submitted or sent any more. *)
C8_FailureIsTerminal ==
    /\ [](calls <= 1)
    /\ [][IsPrefix(stdout, stdout')]_vars
    /\ [][FrozenAfterFailure]_vars

(* a failure after a Shot line was printed, with a response still buffered *)
C8_Witness ==
    /\ error \in Failures
    /\ Len(Printed) >= 1
    /\ inbound # <<>>
    /\ tstate = "stopped"

(* C9 as stated: every run prints the header exactly once; every Shot line
   comes after the header; a session without responses that closed cleanly or
   timed out printed the header and no Shot line, and the clean one ended well. *)
C9_HeaderInEveryRun ==
    /\ Terminated => HeaderCount = 1
    /\ \A i \in DOMAIN stdout :
          IsShotLine(stdout[i]) => \E j \in 1..(i - 1) : IsHeaderLine(stdout[j])
    /\ (Terminated /\ CallReturned /\ delivered = <<>>) =>
          /\ HeaderCount = 1
          /\ Printed = <<>>
    /\ (Terminated /\ rstate = "closed") => pc = "done" /\ error = "none"

(* C9 amended: the header is printed exactly once, before any Shot line, in
   every run whose streaming call returned, and not at all in a run that
   failed before (open() or the call raised), which prints nothing; the rest
   as stated. *)
C9_HeaderOncePerSession ==
    /\ HeaderCount <= 1
    /\ (CallReturned /\ pc # "header") => HeaderCount = 1
    /\ (~CallReturned \/ pc = "header") => stdout = <<>>
    /\ \A i \in DOMAIN stdout :
          IsShotLine(stdout[i]) => \E j \in 1..(i - 1) : IsHeaderLine(stdout[j])
    /\ (Terminated /\ CallReturned /\ delivered = <<>>) =>
          /\ stdout = HeaderLines
          /\ Printed = <<>>
          /\ error \in {"none"} \cup Failures
    /\ (Terminated /\ rstate = "closed") => pc = "done" /\ error = "none"

(* the remote side closed cleanly without a response: header only, success *)
C9_Witness ==
    /\ pc = "done"
    /\ rstate = "closed"
    /\ delivered = <<>>
    /\ stdout = HeaderLines

(* C10: the producer never reads video_file after it was closed. *)
C10_NoReadOnClosedFile == gen # "raised"

====
